---- MODULE Spec2Model ----
(***************************************************************************)
(* Model of src/server.py: the yt-dlp download backend.                    *)
(*                                                                         *)
(*   Spec      - one /api/download request (download_video) driven against *)
(*               an unreliable external engine and the downloads directory *)
(*   SpecFetch - build_qualities applied to bounded raw format lists       *)
(*   SpecFind  - find_downloaded_file applied to bounded directory content *)
(*                                                                         *)
(* Python strings are TLA+ strings; a Python Optional is a sequence of     *)
(* length 0 (None) or 1 (the value).                                       *)
(***************************************************************************)
EXTENDS Integers, Sequences, FiniteSets, TLC

VARIABLES
    pc,              \* position of the request handler
    req,             \* the DownloadRequest being served
    uid,             \* job identifier of the request
    attempts,        \* the plan: build_format_attempts(req)
    idx,             \* index of the selector the for-loop is at
    last_error,      \* Optional[str]
    extracted_info,  \* Optional[info], info = [title : str]
    downloaded_path, \* Optional[str], the stored name found
    dir,             \* content of DOWNLOAD_DIR: set of [name, mtime, isfile]
    now,             \* filesystem clock, stamps the files the engine writes
    status,          \* HTTP status of the response, 0 while running
    detail,          \* detail of the HTTPException, "" if none
    response,        \* body of the 200 response
    last_attempt,    \* history: outcome of the attempt that finished last
    diag_seen,       \* history: some attempt so far produced a diagnostic text
    invoked,         \* history: selectors the engine was invoked with
    rm_failed,       \* history: names whose os.remove raised in the last cleanup
    written,         \* history: names the latest engine call wrote
    timed_out,       \* history: an engine call hit its socket timeout
    formats,         \* SpecFetch: info["formats"]
    qualities,       \* SpecFetch: Optional[result of build_qualities]
    listing,         \* SpecFind: os.listdir order of the directory
    found,           \* SpecFind: Optional[Optional[str]] result of the lookup
    filename,        \* SpecServe: the path parameter of serve_file
    filepath,        \* SpecServe: Optional[str], the path probed on the filesystem
    pending          \* SpecPair: listed names cleanup_uid_files has yet to remove

vars == << pc, req, uid, attempts, idx, last_error, extracted_info,
           downloaded_path, dir, now, status, detail, response, last_attempt,
           diag_seen, invoked, rm_failed, written, timed_out, formats, qualities,
           listing, found, filename, filepath, pending >>

dlvars_rest == << req, uid, attempts, idx, last_error, extracted_info,
                  downloaded_path, dir, now, status, detail, response,
                  last_attempt, diag_seen, invoked, rm_failed, written, timed_out >>

None == << >>
Some(v) == << v >>

(***************************************************************************)
(* Bounds                                                                  *)
(***************************************************************************)
MaxFormats == 3
MaxEntries == 3
MaxMtime == 3
MaxSubdirs == 1

(***************************************************************************)
(* Python string primitives                                                *)
(***************************************************************************)
Char(s, i) == SubSeq(s, i, i)

startswith(s, p) == Len(s) >= Len(p) /\ SubSeq(s, 1, Len(p)) = p

endswith(s, p) == Len(s) >= Len(p) /\ SubSeq(s, Len(s) - Len(p) + 1, Len(s)) = p

Contains(s, p) == \E i \in 1..(Len(s) - Len(p) + 1) : SubSeq(s, i, i + Len(p) - 1) = p

\* Strings range over the characters U+0001 to U+00FF (Latin-1), the ones a TLA+
\* string literal can hold; the classes below are Python's on that range.
\* str.lower() maps the i-th character of UpperLetters to the i-th of
\* LowerLetters and leaves every other character alone.
UpperLetters == "ABCDEFGHIJKLMNOPQRSTUVWXYZÀÁÂÃÄÅÆÇÈÉÊËÌÍÎÏÐÑÒÓÔÕÖØÙÚÛÜÝÞ"
LowerLetters == "abcdefghijklmnopqrstuvwxyzàáâãäåæçèéêëìíîïðñòóôõöøùúûüýþ"
\* the remaining characters of \w: letters without case mapping in UpperLetters, and numerics
OtherWordLetters == "ª²³µ¹º¼½¾ßÿ"
Digits == "0123456789"

InStr(c, s) == \E d \in { c } : \E i \in 1..Len(s) : Char(s, i) = d

IndexIn(c, s) == CHOOSE i \in 1..Len(s) : \E d \in { c } : Char(s, i) = d

\* the characters of each class, as sets
UpperChars == { Char(UpperLetters, i) : i \in 1..Len(UpperLetters) }
LowerChars == { Char(LowerLetters, i) : i \in 1..Len(LowerLetters) }
DigitChars == { Char(Digits, i) : i \in 1..Len(Digits) }
OtherWordChars == { Char(OtherWordLetters, i) : i \in 1..Len(OtherWordLetters) }

LowerChar(c) == IF c \in UpperChars THEN Char(LowerLetters, IndexIn(c, UpperLetters)) ELSE c

\* the strings are walked by index
RECURSIVE LowerFrom(_, _)
LowerFrom(s, i) == IF i > Len(s) THEN "" ELSE LowerChar(Char(s, i)) \o LowerFrom(s, i + 1)

lower(s) == LowerFrom(s, 1)

\* str.isspace(): the white space of str.strip() and of \s; after the named
\* ones come U+000B, U+001C to U+001F, U+0085 and U+00A0
SpaceChars == { " ", "\t", "\n", "\r", "\f", "", "", "", "", "", "", " " }

IsSpace(c) == c \in SpaceChars

\* the index of the first character at or after i that is not white space
RECURSIVE SkipSpaces(_, _)
SkipSpaces(s, i) == IF i <= Len(s) /\ IsSpace(Char(s, i)) THEN SkipSpaces(s, i + 1) ELSE i

\* the index of the last character at or before n that is not white space
RECURSIVE SkipSpacesBack(_, _)
SkipSpacesBack(s, n) == IF n >= 1 /\ IsSpace(Char(s, n)) THEN SkipSpacesBack(s, n - 1) ELSE n

lstrip(s) == SubSeq(s, SkipSpaces(s, 1), Len(s))

rstrip(s) == SubSeq(s, 1, SkipSpacesBack(s, Len(s)))

strip(s) == rstrip(lstrip(s))

\* \w of a str pattern: alphanumeric (str.isalnum) or underscore
WordChars == LowerChars \cup UpperChars \cup DigitChars \cup OtherWordChars \cup { "_" }

IsWordChar(c) == c \in WordChars

(***************************************************************************)
(* sanitize_filename                                                       *)
(***************************************************************************)
\* the class [\w\-. ] of line 71
SafeChars == WordChars \cup { "-", ".", " " }

SafeChar(c) == IF c \in SafeChars THEN c ELSE "_"

RECURSIVE SubNonSafeFrom(_, _)
SubNonSafeFrom(s, i) ==
    IF i > Len(s) THEN "" ELSE SafeChar(Char(s, i)) \o SubNonSafeFrom(s, i + 1)

\* re.sub(r"[^\w\-. ]", "_", name)
SubNonSafe(s) == SubNonSafeFrom(s, 1)

RECURSIVE CollapseSpacesFrom(_, _)
CollapseSpacesFrom(s, i) ==
    IF i > Len(s) THEN ""
    ELSE (IF ~IsSpace(Char(s, i)) THEN Char(s, i)
          ELSE IF i > 1 /\ IsSpace(Char(s, i - 1)) THEN "" ELSE " ")
         \o CollapseSpacesFrom(s, i + 1)

\* re.sub(r"\s+", " ", clean)
CollapseSpaces(s) == CollapseSpacesFrom(s, 1)

\* clean[:max_len] if clean else "video"
Clip(clean, max_len) ==
    IF clean # "" THEN SubSeq(clean, 1, IF Len(clean) < max_len THEN Len(clean) ELSE max_len)
    ELSE "video"

\* the three stages of lines 71-73; each stage is a value bound once
sanitize_filename(name, max_len) ==
    CHOOSE out \in { Clip(clean, max_len) :
                        clean \in { strip(collapsed) :
                            collapsed \in { CollapseSpaces(subbed) :
                                subbed \in { SubNonSafe(n) : n \in { name } } } } } : TRUE

(***************************************************************************)
(* Selector Fallback Planner                                               *)
(***************************************************************************)
GENERIC_SELECTORS ==
    { "best", "b", "bestvideo+bestaudio/best", "bestvideo*+bestaudio/best",
      "bv*+ba/b", "bestvideo+bestaudio", "bestaudio/best" }

RECURSIVE KeepFirst(_, _)
KeepFirst(items, out) ==
    IF items = << >> THEN out
    ELSE IF \E j \in 1..Len(out) : out[j] = Head(items)
         THEN KeepFirst(Tail(items), out)
         ELSE KeepFirst(Tail(items), Append(out, Head(items)))

unique_keep_order_NoDedup(items) == items

unique_keep_order(items) == KeepFirst(items, << >>)

AudioTail == << "bestaudio[ext=m4a]/bestaudio/best", "bestaudio/best", "best" >>

VideoTail_NoContainerFallback ==
    << "bestvideo[ext=mp4]+bestaudio[ext=m4a]/best[ext=mp4]/best",
       "bestvideo*+bestaudio/best", "best" >>

VideoTail == << "bestvideo[ext=mp4]+bestaudio[ext=m4a]/best[ext=mp4]/best",
                "bestvideo*+bestaudio/best", "best[ext=mp4]/best", "best" >>

ReqType(r) == lower(IF r.format_type # "" THEN r.format_type ELSE "video")

build_format_attempts(r) ==
    LET requested == strip(r.format_id)
    IN  IF ReqType(r) = "audio"
        THEN unique_keep_order((IF requested # "" THEN << requested >> ELSE << >>) \o AudioTail)
        ELSE unique_keep_order(
                (IF requested # "" /\ requested \notin GENERIC_SELECTORS
                 THEN << requested \o "+bestaudio/best", requested \o "/best" >>
                 ELSE IF requested # "" THEN << requested >> ELSE << >>)
                \o VideoTail)

(***************************************************************************)
(* Paths                                                                   *)
(***************************************************************************)
DOWNLOAD_DIR == "/app/downloads"

join(d, name) == IF startswith(name, "/") THEN name ELSE d \o "/" \o name

\* the index of the last c at or before i, 0 when there is none
RECURSIVE LastIndexFrom(_, _, _)
LastIndexFrom(s, c, i) ==
    IF i = 0 THEN 0 ELSE IF Char(s, i) = c THEN i ELSE LastIndexFrom(s, c, i - 1)

LastIndexOf(s, c) == LastIndexFrom(s, c, Len(s))

basename(p) == SubSeq(p, LastIndexOf(p, "/") + 1, Len(p))

\* os.path.splitext(name)[1]: from the last dot, unless only dots precede it
splitext_ext(name) ==
    LET i == LastIndexOf(name, ".")
    IN  IF i > 0 /\ \E j \in 1..(i-1) : Char(name, j) # "." THEN SubSeq(name, i, Len(name)) ELSE ""

RECURSIVE lstrip_dots(_)
lstrip_dots(s) == IF s # "" /\ Char(s, 1) = "." THEN lstrip_dots(SubSeq(s, 2, Len(s))) ELSE s

(***************************************************************************)
(* The downloads directory: cleanup_uid_files and find_downloaded_file     *)
(***************************************************************************)
Names(d) == { e.name : e \in d }

\* the entries cleanup_uid_files calls os.remove on
Matching(d, u) == { e \in d : startswith(e.name, u) }

\* os.remove raises on a directory; on a file it may raise (the code ignores it)
RemoveFailures(d, u) ==
    { F \in SUBSET Names(Matching(d, u)) : \A e \in Matching(d, u) : ~e.isfile => e.name \in F }

IsTempName(name) == endswith(name, ".part") \/ endswith(name, ".ytdl") \/ endswith(name, ".tmp")

cleanup_uid_files_PartialOnly(d, u, fail) ==
    { e \in d : ~startswith(e.name, u) \/ ~IsTempName(e.name) \/ e.name \in fail }

cleanup_uid_files(d, u, fail) == { e \in d : ~startswith(e.name, u) \/ e.name \in fail }

RECURSIVE Candidates(_, _)
Candidates(ls, u) ==
    IF ls = << >> THEN << >>
    ELSE LET e == Head(ls)
         IN  IF startswith(e.name, u) /\ ~IsTempName(e.name) /\ e.isfile
             THEN << [path |-> join(DOWNLOAD_DIR, e.name), mtime |-> e.mtime] >> \o Candidates(Tail(ls), u)
             ELSE Candidates(Tail(ls), u)

\* list.sort(key=mtime, reverse=True): stable, equal keys keep listing order
RECURSIVE InsertDesc_Ascending(_, _)
InsertDesc_Ascending(sorted, c) ==
    IF sorted = << >> THEN << c >>
    ELSE IF Head(sorted).mtime <= c.mtime
         THEN << Head(sorted) >> \o InsertDesc_Ascending(Tail(sorted), c)
         ELSE << c >> \o sorted

RECURSIVE InsertDesc(_, _)
InsertDesc(sorted, c) ==
    IF sorted = << >> THEN << c >>
    ELSE IF Head(sorted).mtime >= c.mtime
         THEN << Head(sorted) >> \o InsertDesc(Tail(sorted), c)
         ELSE << c >> \o sorted

RECURSIVE SortByMtimeDesc(_, _)
SortByMtimeDesc(cs, acc) ==
    IF cs = << >> THEN acc
    ELSE CHOOSE out \in { SortByMtimeDesc(Tail(cs), a) : a \in { InsertDesc(acc, Head(cs)) } } : TRUE

find_downloaded_file(ls, u) ==
    CHOOSE out \in { IF candidates = << >> THEN None
                     ELSE Some(SortByMtimeDesc(candidates, << >>)[1].path) :
                     candidates \in { Candidates(ls, u) } } : TRUE

\* the orders os.listdir may return the entries of d in
Listings(d) ==
    { ls \in [1..Cardinality(d) -> d] : \A i, j \in 1..Cardinality(d) : i # j => ls[i] # ls[j] }

(***************************************************************************)
(* Inputs of a download request and outcomes of the external engine        *)
(***************************************************************************)
Request(u, f, q, t) == [url |-> u, format_id |-> f, quality_label |-> q, format_type |-> t]

Requests ==
    { Request("https://v/1", "137", "720p HD", "video"),
      Request("https://v/1", " best", "Best Available", "Video"),
      Request("https://v/1", "bestaudio/best", "Audio Only", "audio"),
      Request("", "", "", "") }

JobIds == { "a1" }

\* what another request left in the directory before this one starts
OtherFiles == { [name |-> "b2.mp4", mtime |-> 0, isfile |-> TRUE] }

\* extensions the engine may leave under the output template uid.%(ext)s
EngineExts == { "mp4", "webm", "mp4.part" }

\* extract_info returns an info dict (or nothing)
Infos == { None, Some([title |-> "Big  Buck/Bunny"]) }

NotAvailable == "ERROR: Requested format is not available"
TimedOut == "ERROR: The read operation timed out"
ErrorTexts == { "", NotAvailable, TimedOut }

EngineResults ==
    { [kind |-> "ok", info |-> i, text |-> ""] : i \in Infos } \cup
    { [kind |-> "raise", info |-> None, text |-> t] : t \in ErrorTexts }

NotFoundMsg == "Download completed but output file was not found."
GenericMsg == "Download failed after all fallback attempts."

\* how an attempt ended: "raise" (engine failure), "missing" (engine success,
\* no artifact) or "found"; text is the diagnostic it produced
Attempt(f, r, t) == [fmt |-> f, result |-> r, text |-> t]
NoAttempt == Attempt("", "none", "")

NoResponse == [download_url |-> "", filename |-> ""]
NoRequest == [url |-> "", format_id |-> "", quality_label |-> "", format_type |-> ""]

\* the engine writes (overwrites: True) the files named ns, stamped t
Write(d, ns, t) ==
    { e \in d : e.name \notin ns } \cup { [name |-> n, mtime |-> t, isfile |-> TRUE] : n \in ns }

(***************************************************************************)
(* download_video                                                          *)
(***************************************************************************)
fetchvars == << formats, qualities >>
findvars == << listing, found >>
servevars == << filename, filepath >>

\* lines 365-370: job identifier, plan, locals
Start ==
    /\ pc = "idle"
    /\ \E r \in Requests, u \in JobIds :
          /\ req' = r
          /\ uid' = u
          /\ attempts' = build_format_attempts(r)
          /\ pc' = IF build_format_attempts(r) = << >> THEN "finish" ELSE "cleanup"
    /\ idx' = 1
    /\ last_error' = None
    /\ extracted_info' = None
    /\ downloaded_path' = None
    /\ UNCHANGED << dir, now, status, detail, response, last_attempt, diag_seen, invoked, rm_failed,
                    written, timed_out, fetchvars, findvars,
                    servevars, pending >>

\* line 373: cleanup_uid_files(uid) at the head of the loop body
Cleanup ==
    /\ pc = "cleanup"
    /\ \E fail \in RemoveFailures(dir, uid) :
          /\ dir' = cleanup_uid_files(dir, uid, fail)
          /\ rm_failed' = fail
    /\ pc' = "engine"
    /\ UNCHANGED << req, uid, attempts, idx, last_error, extracted_info,
                    downloaded_path, now, status, detail, response, last_attempt,
                    diag_seen, invoked, written, timed_out, fetchvars, findvars,
                    servevars, pending >>

\* the for-loop moves to the next selector, or falls out of the loop
NextPc_Bail == "finish"
NextIdx_Retry == idx

NextPc_Loop == "cleanup"

NextPc == IF idx < Len(attempts) THEN "cleanup" ELSE "finish"
NextIdx == IF idx < Len(attempts) THEN idx + 1 ELSE idx

\* lines 375-389 and 397-399: one engine call with selector attempts[idx]
Engine ==
    /\ pc = "engine"
    /\ invoked' = Append(invoked, attempts[idx])
    /\ now' = now + 1
    /\ \E exts \in SUBSET EngineExts, res \in EngineResults :
          LET ns == { uid \o "." \o x : x \in exts }
          IN  /\ dir' = Write(dir, ns, now)
              /\ written' = ns
              /\ timed_out' = (timed_out \/ res.text = TimedOut)
              /\ IF res.kind = "ok"
                 THEN /\ extracted_info' = res.info
                      /\ pc' = "locate"
                      /\ UNCHANGED << last_error, last_attempt, diag_seen, idx >>
                 ELSE /\ last_error' = Some(res.text)
                      /\ last_attempt' = Attempt(attempts[idx], "raise", res.text)
                      /\ diag_seen' = (diag_seen \/ res.text # "")
                      /\ pc' = NextPc
                      /\ idx' = NextIdx
                      /\ UNCHANGED extracted_info
    /\ UNCHANGED << req, uid, attempts, downloaded_path, status, detail, response,
                    rm_failed, fetchvars, findvars,
                    servevars, pending >>

\* lines 391-395: look the artifact up; break, or record the soft failure
Locate ==
    /\ pc = "locate"
    /\ \E ls \in Listings(dir) :
          \E p \in { find_downloaded_file(ls, uid) } :
              /\ downloaded_path' = p
              /\ IF p # None
                 THEN /\ pc' = "finish"
                      /\ last_attempt' = Attempt(attempts[idx], "found", "")
                      /\ UNCHANGED << last_error, diag_seen, idx >>
                 ELSE /\ last_error' = Some(NotFoundMsg)
                      /\ last_attempt' = Attempt(attempts[idx], "missing", NotFoundMsg)
                      /\ diag_seen' = TRUE
                      /\ pc' = NextPc
                      /\ idx' = NextIdx
    /\ UNCHANGED << req, uid, attempts, extracted_info, dir, now, status, detail,
                    response, invoked, rm_failed, written, timed_out, fetchvars, findvars,
                    servevars, pending >>

Truthy(opt) == opt # None /\ opt[1] # ""

\* lines 402-405: detail=last_error or "Download failed after all fallback attempts."
FailureDetail_Generic(le) == GenericMsg

FailureDetail(le) == IF Truthy(le) THEN le[1] ELSE GenericMsg

MAX_TITLE == 90
MAX_QUALITY == 30

\* lines 407-418: the body of the 200 response
Response(r, path, info) ==
    CHOOSE out \in
        { LET ext0 == lstrip_dots(splitext_ext(stored_name))
              ext == IF ext0 # "" THEN ext0
                     ELSE IF lower(r.format_type) = "video" THEN "mp4" ELSE "m4a"
              title == sanitize_filename(IF info = None THEN "video" ELSE info[1].title, MAX_TITLE)
              quality == sanitize_filename(IF r.quality_label # "" THEN r.quality_label ELSE "best", MAX_QUALITY)
          IN  [ download_url |-> "/downloads/" \o stored_name,
                filename |-> title \o "_" \o quality \o "." \o ext ] :
          stored_name \in { basename(path) } } : TRUE

\* lines 401-418: raise the 500, or answer with the stored file
Finish ==
    /\ pc = "finish"
    /\ IF ~Truthy(downloaded_path)
       THEN /\ status' = 500
            /\ detail' = FailureDetail(last_error)
            /\ UNCHANGED response
       ELSE /\ status' = 200
            /\ response' = Response(req, downloaded_path[1], extracted_info)
            /\ UNCHANGED detail
    /\ pc' = "done"
    /\ UNCHANGED << req, uid, attempts, idx, last_error, extracted_info,
                    downloaded_path, dir, now, last_attempt, diag_seen, invoked, rm_failed, written,
                    timed_out, fetchvars, findvars,
                    servevars, pending >>

Init ==
    /\ pc = "idle"
    /\ req = NoRequest
    /\ uid = ""
    /\ attempts = << >>
    /\ idx = 1
    /\ last_error = None
    /\ extracted_info = None
    /\ downloaded_path = None
    /\ dir = OtherFiles
    /\ now = 1
    /\ status = 0
    /\ detail = ""
    /\ response = NoResponse
    /\ last_attempt = NoAttempt
    /\ diag_seen = FALSE
    /\ invoked = << >>
    /\ rm_failed = {}
    /\ written = {}
    /\ timed_out = FALSE
    /\ formats = << >>
    /\ qualities = None
    /\ listing = << >>
    /\ found = None
    /\ filename = ""
    /\ filepath = None
    /\ pending = {}

Next == Start \/ Cleanup \/ Engine \/ Locate \/ Finish

Spec == Init /\ [][Next]_vars

(***************************************************************************)
(* Properties of download_video (specification Spec)                       *)
(***************************************************************************)
IsPrefix(a, b) == Len(a) <= Len(b) /\ \A i \in 1..Len(a) : a[i] = b[i]

\* the files of the request's job that find_downloaded_file accepts
Qualifying(d, u) ==
    { e \in d : /\ startswith(e.name, u)
                /\ ~endswith(e.name, ".part") /\ ~endswith(e.name, ".ytdl") /\ ~endswith(e.name, ".tmp")
                /\ e.isfile }

\* C1: the engine is invoked with the selectors of the plan in plan order; the
\* request stops at the first attempt after which a file is found and invokes
\* the engine for no later selector; an error status is returned only when the
\* engine was invoked for every selector of the plan.
C1_PlanWalkedInOrder ==
    /\ IsPrefix(invoked, attempts)
    /\ last_attempt.result = "found" =>
          /\ pc \in { "finish", "done" }
          /\ invoked = SubSeq(attempts, 1, idx)
          /\ last_attempt.fmt = attempts[idx]
    /\ status # 0 => pc = "done"
    /\ status = 200 => last_attempt.result = "found"
    /\ (status # 0 /\ status # 200) =>
          /\ invoked = attempts
          /\ last_attempt.result \in { "raise", "missing" }
          /\ last_attempt.fmt = attempts[Len(attempts)]

C1_Witness ==
    /\ status = 200
    /\ Len(attempts) = 6
    /\ Len(invoked) = 3
    /\ last_error # None

\* C2 as stated: when the engine is invoked, no entry of the directory begins
\* with the job identifier.
C2_Original == pc = "engine" => Matching(dir, uid) = {}

\* C2 amended: when the engine is invoked, the entries of the directory that
\* begin with the job identifier are exactly those whose removal raised in the
\* cleanup that just ran; every other such entry was removed.
C2_CleanExceptFailedRemovals ==
    pc = "engine" => Names(Matching(dir, uid)) = rm_failed

C2_Witness ==
    /\ pc = "engine"
    /\ idx = 3
    /\ Cardinality(written) = 2
    /\ rm_failed = {}
    /\ Matching(dir, uid) = {}

\* C3: when the engine reports success and no qualifying file exists, nothing
\* is returned at that point: the soft failure is recorded and the next
\* selector is taken up, or the loop is left after the last selector; a request
\* whose last attempt was such a soft failure ends with status 500.
C3_SoftFailureContinues ==
    /\ [][ (pc = "locate" /\ Qualifying(dir, uid) = {}) =>
              /\ status' = 0
              /\ downloaded_path' = None
              /\ last_error' = Some(NotFoundMsg)
              /\ IF idx < Len(attempts)
                 THEN pc' = "cleanup" /\ idx' = idx + 1
                 ELSE pc' = "finish" ]_vars
    /\ [] ((pc = "done" /\ last_attempt.result = "missing") =>
              (status = 500 /\ invoked = attempts))

C3_Witness ==
    /\ pc = "done"
    /\ status = 500
    /\ last_attempt.result = "missing"
    /\ written # {}

\* C4 as stated: on exhaustion the 500 carries the diagnostic of the last
\* attempt, and the generic message only if no attempt produced a diagnostic.
C4_Original ==
    status = 500 =>
        /\ detail = (IF last_attempt.text # "" THEN last_attempt.text ELSE GenericMsg)
        /\ detail = GenericMsg => ~diag_seen

\* C4 amended: on exhaustion the status is 500 and its detail is the
\* diagnostic of the last attempt of the plan (the engine's error text, or the
\* artifact-missing message), and the generic message exactly when that last
\* diagnostic is empty, whatever earlier attempts recorded.
C4_LastDiagnosticOrGeneric ==
    (pc = "done" /\ ~Truthy(downloaded_path)) =>
        /\ status = 500
        /\ last_attempt.fmt = attempts[Len(attempts)]
        /\ last_attempt.result = "raise" \/ (last_attempt.result = "missing" /\ last_attempt.text = NotFoundMsg)
        /\ detail = (IF last_attempt.text # "" THEN last_attempt.text ELSE GenericMsg)

C4_Witness ==
    /\ status = 500
    /\ detail = GenericMsg
    /\ diag_seen

\* C5: a request in which an engine call exceeded its time bound ends with a
\* status that is neither 200 nor the generic 500, the engine is not invoked
\* for a later selector, and no entry with the job identifier remains.
C5_TimeoutIsDistinct ==
    (pc = "done" /\ timed_out) =>
        /\ status \notin { 200, 500 }
        /\ last_attempt.text = TimedOut
        /\ Matching(dir, uid) = {}

\* C12: a download request whose url is empty fails fast with a client-fault
\* status (4xx): the engine is invoked for no selector, and the request does
\* not end with the 500 of an exhausted plan.
C12_EmptyUrlFailsFast ==
    (pc # "idle" /\ req.url = "") =>
        /\ invoked = << >>
        /\ pc = "done" => status \in 400..499

\* C19: whenever download_video answers with success, the file it returns was
\* written by the engine call of the attempt just executed, never a leftover
\* of an earlier attempt of the request.
C19_ReturnedFileIsFresh ==
    (pc = "done" /\ status = 200) =>
        basename(downloaded_path[1]) \in written

\* download_video runs on a worker thread that executes its statements one
\* after the other; every engine call is assumed to return.  A request need
\* not arrive, so Start is not a fair action.
Step == Cleanup \/ Engine \/ Locate \/ Finish

SpecLive == Spec /\ WF_vars(Step)

MAX_VIDEO_ATTEMPTS == 6
MAX_AUDIO_ATTEMPTS == 4

\* C20: every request terminates; the engine is invoked with the selectors
\* of the plan in order, each at most once (at most 6 invocations for video,
\* 4 for audio); the request ends with exactly one of success (status 200,
\* an artifact returned) or the 500 raised after the whole plan was tried.
C20_Terminates ==
    /\ [](/\ Len(invoked) <= Len(attempts)
          /\ invoked = SubSeq(attempts, 1, Len(invoked))
          /\ \A i, j \in 1..Len(invoked) : i # j => invoked[i] # invoked[j]
          /\ Len(invoked) <= (IF ReqType(req) = "audio" THEN MAX_AUDIO_ATTEMPTS
                              ELSE MAX_VIDEO_ATTEMPTS))
    /\ [](pc = "done" =>
             \/ status = 200 /\ Truthy(downloaded_path)
                             /\ response.download_url = "/downloads/" \o basename(downloaded_path[1])
             \/ status = 500 /\ ~Truthy(downloaded_path) /\ Len(invoked) = Len(attempts)
                             /\ response = NoResponse)
    /\ (pc = "cleanup" ~> pc = "done")

\* a video request for a specific format ended with the 500 after six
\* engine invocations
C20_Witness ==
    /\ pc = "done"
    /\ status = 500
    /\ Len(invoked) = MAX_VIDEO_ATTEMPTS

(***************************************************************************)
(* find_downloaded_file on arbitrary directory content (SpecFind)          *)
(***************************************************************************)
FindNames == { "a1.mp4", "a1.webm", "a1.mp4.part", "a1.ytdl", "a1.tmp", "b2.mp4",
               "a1x.mp4" }
FindJobIds == { "a1" }

\* a directory content with the names N: mtimes m, subdirectories D
FindDir(N, m, D) == { [name |-> n, mtime |-> m[n], isfile |-> n \notin D] : n \in N }

InitFind ==
    /\ pc = "find"
    /\ req = NoRequest
    /\ uid \in FindJobIds
    /\ attempts = << >>
    /\ idx = 1
    /\ last_error = None
    /\ extracted_info = None
    /\ downloaded_path = None
    /\ \E N \in SUBSET FindNames :
          /\ Cardinality(N) <= MaxEntries
          /\ \E m \in [N -> 1..MaxMtime], D \in SUBSET N :
                /\ Cardinality(D) <= MaxSubdirs
                /\ dir = FindDir(N, m, D)
    /\ now = 1
    /\ status = 0
    /\ detail = ""
    /\ response = NoResponse
    /\ last_attempt = NoAttempt
    /\ diag_seen = FALSE
    /\ invoked = << >>
    /\ rm_failed = {}
    /\ written = {}
    /\ timed_out = FALSE
    /\ formats = << >>
    /\ qualities = None
    /\ listing = << >>
    /\ found = None
    /\ filename = ""
    /\ filepath = None
    /\ pending = {}

\* lines 250-265 applied to the directory as os.listdir returns it
Find ==
    /\ pc = "find"
    /\ \E ls \in Listings(dir) :
          /\ listing' = ls
          /\ found' = Some(find_downloaded_file(ls, uid))
    /\ pc' = "found"
    /\ UNCHANGED << req, uid, attempts, idx, last_error, extracted_info,
                    downloaded_path, dir, now, status, detail, response,
                    last_attempt, diag_seen, invoked, rm_failed, written,
                    timed_out, fetchvars, servevars, pending >>

NextFind == Find

SpecFind == InitFind /\ [][NextFind]_vars

\* C6: the lookup returns no name ending in .part, .ytdl or .tmp; what it
\* returns is a qualifying file of the job with the greatest modification
\* time among the qualifying files; it returns nothing exactly when the
\* directory holds no qualifying file.
C6_FindReturnsNewestFinal ==
    pc = "found" =>
        LET r == found[1]
            Q == Qualifying(dir, uid)
        IN  /\ r = None <=> Q = {}
            /\ r # None =>
                  /\ ~endswith(r[1], ".part") /\ ~endswith(r[1], ".ytdl") /\ ~endswith(r[1], ".tmp")
                  /\ \E e \in Q : /\ r[1] = DOWNLOAD_DIR \o "/" \o e.name
                                  /\ \A f \in Q : f.mtime <= e.mtime

C6_Witness ==
    /\ pc = "found"
    /\ found[1] # None
    /\ \E e, f \in Qualifying(dir, uid) : e.mtime < f.mtime
    /\ \E t \in dir : startswith(t.name, uid) /\ endswith(t.name, ".part")
                      /\ \A q \in Qualifying(dir, uid) : q.mtime < t.mtime

\* C14: the lookup returns only an entry whose name is the job identifier
\* immediately followed by the separator "."; an entry whose name begins with
\* the identifier's characters and continues with another character is never
\* returned.
C14_SeparatorRequired ==
    (pc = "found" /\ found[1] # None) =>
        startswith(basename(found[1][1]), uid \o ".")

(***************************************************************************)
(* build_format_attempts on arbitrary requests (SpecPlan)                  *)
(***************************************************************************)
PlanFormatIds ==
    { "", "  ", "137", "18", "best", " best ", "b", "bestaudio/best", "bestvideo+bestaudio",
      "bestvideo*+bestaudio/best", "bestvideo*+bestaudio", "137+140", "best\r\n", " 137",
      "best[ext=mp4]/best", "bestaudio[ext=m4a]/bestaudio/best" }
PlanFormatTypes == { "video", "audio", "Audio", "VIDEO", "", "subtitles" }

PlanRequests == { Request("https://v/1", f, "720p", t) : f \in PlanFormatIds, t \in PlanFormatTypes }

InitPlan ==
    /\ pc = "plan"
    /\ req \in PlanRequests
    /\ uid = ""
    /\ attempts = << >>
    /\ idx = 1
    /\ last_error = None
    /\ extracted_info = None
    /\ downloaded_path = None
    /\ dir = {}
    /\ now = 1
    /\ status = 0
    /\ detail = ""
    /\ response = NoResponse
    /\ last_attempt = NoAttempt
    /\ diag_seen = FALSE
    /\ invoked = << >>
    /\ rm_failed = {}
    /\ written = {}
    /\ timed_out = FALSE
    /\ formats = << >>
    /\ qualities = None
    /\ listing = << >>
    /\ found = None
    /\ filename = ""
    /\ filepath = None
    /\ pending = {}

\* line 366: attempts = build_format_attempts(req)
Plan ==
    /\ pc = "plan"
    /\ attempts' = build_format_attempts(req)
    /\ pc' = "planned"
    /\ UNCHANGED << req, uid, idx, last_error, extracted_info, downloaded_path,
                    dir, now, status, detail, response, last_attempt, diag_seen,
                    invoked, rm_failed, written, timed_out, fetchvars, findvars,
                    servevars, pending >>

NextPlan == Plan

SpecPlan == InitPlan /\ [][NextPlan]_vars

NoDuplicates(seq) == \A i, j \in 1..Len(seq) : i # j => seq[i] # seq[j]

\* C7 as stated: the plan has no duplicate entries and its last element is the
\* selector "best", whatever the supplied selector and kind.
C7_Original ==
    pc = "planned" =>
        /\ NoDuplicates(attempts)
        /\ attempts # << >>
        /\ attempts[Len(attempts)] = "best"

\* C7 amended: the plan has no duplicate entries and always contains "best";
\* "best" is its last element unless the supplied selector, trimmed, is itself
\* "best": then "best" is the first element and the plan ends with
\* "best[ext=mp4]/best" (video) or "bestaudio/best" (audio).
C7_PlanUniqueContainsBest ==
    pc = "planned" =>
        /\ NoDuplicates(attempts)
        /\ \E i \in 1..Len(attempts) : attempts[i] = "best"
        /\ strip(req.format_id) # "best" => attempts[Len(attempts)] = "best"
        /\ strip(req.format_id) = "best" =>
              /\ attempts[1] = "best"
              /\ attempts[Len(attempts)] =
                    (IF lower(req.format_type) = "audio" THEN "bestaudio/best" ELSE "best[ext=mp4]/best")

C7_Witness ==
    /\ pc = "planned"
    /\ req.format_id = " best "
    /\ req.format_type = "Audio"
    /\ attempts = << "best", "bestaudio[ext=m4a]/bestaudio/best", "bestaudio/best" >>

\* a selector that is a generic name or a compound expression
IsCompound(sel) ==
    sel \in GENERIC_SELECTORS \/ InStr("+", sel) \/ InStr("/", sel) \/ InStr("[", sel)

\* C15: for kind video, a supplied selector that is a generic or compound
\* expression (one of GENERIC_SELECTORS, or any selector containing "+", "/"
\* or a "[...]" filter) is the first attempt of the plan as supplied, and the
\* plan contains neither "{selector}+bestaudio/best" nor "{selector}/best".
C15_CompoundUsedAsIs ==
    (pc = "planned" /\ ReqType(req) = "video" /\ IsCompound(strip(req.format_id))) =>
        LET requested == strip(req.format_id)
        IN  /\ attempts[1] = requested
            /\ \A i \in 1..Len(attempts) :
                   /\ attempts[i] # requested \o "+bestaudio/best"
                   /\ attempts[i] # requested \o "/best"

\* a specific format identifier: not empty, not generic, not compound
IsSpecific(sel) == sel # "" /\ ~IsCompound(sel)

\* the number of "[...]" filters of a selector; fewer filters, more general
RECURSIVE Filters(_)
Filters(sel) ==
    IF sel = "" THEN 0
    ELSE (IF Char(sel, 1) = "[" THEN 1 ELSE 0) + Filters(SubSeq(sel, 2, Len(sel)))

\* C16 as stated: for kind video and a specific format identifier the plan
\* begins with "{id}+bestaudio/best" and "{id}/best"; the selectors after
\* them do not mention the identifier, are of non-decreasing generality and
\* end with "best".
C16_Original ==
    (pc = "planned" /\ ReqType(req) = "video" /\ IsSpecific(strip(req.format_id))) =>
        LET id == strip(req.format_id)
        IN  /\ Len(attempts) > 2
            /\ attempts[1] = id \o "+bestaudio/best"
            /\ attempts[2] = id \o "/best"
            /\ attempts[Len(attempts)] = "best"
            /\ \A i \in 3..Len(attempts) : ~startswith(attempts[i], id)
            /\ \A i, j \in 3..Len(attempts) :
                   i < j => Filters(attempts[i]) >= Filters(attempts[j])

\* C16 amended: for kind video and a specific format identifier the plan is
\* "{id}+bestaudio/best", "{id}/best", the preferred-container pair,
\* any-video+any-audio, the container-filtered "best[ext=mp4]/best" and
\* "best", in this order: the two attempts naming the identifier precede
\* every generic one, but the generic ones are not ordered by generality (a
\* filtered selector follows an unfiltered one).
C16_SpecificThenFourGeneric ==
    (pc = "planned" /\ ReqType(req) = "video" /\ IsSpecific(strip(req.format_id))) =>
        LET id == strip(req.format_id)
        IN  /\ attempts = << id \o "+bestaudio/best", id \o "/best",
                             "bestvideo[ext=mp4]+bestaudio[ext=m4a]/best[ext=mp4]/best",
                             "bestvideo*+bestaudio/best", "best[ext=mp4]/best", "best" >>
            /\ \A i \in 3..Len(attempts) : ~startswith(attempts[i], id)
            /\ Filters(attempts[4]) < Filters(attempts[5])

C16_Witness ==
    /\ pc = "planned"
    /\ req.format_id = "137"
    /\ req.format_type = "VIDEO"
    /\ Len(attempts) = 6
    /\ attempts[1] = "137+bestaudio/best"

(***************************************************************************)
(* Format Normalizer: parse_height                                         *)
(*                                                                         *)
(* A raw format is a record whose fields are Optionals (fmt.get(k)).  The  *)
(* height field holds [int, v]: int is FALSE for a value that is not a     *)
(* Python int (a float or a string).                                       *)
(***************************************************************************)
IsDigit(c) == InStr(c, Digits)

DigitVal(c) == IndexIn(c, Digits) - 1

\* int(s) for a string of decimal digits
RECURSIVE ToInt(_)
ToInt(s) == IF s = "" THEN 0 ELSE 10 * ToInt(SubSeq(s, 1, Len(s) - 1)) + DigitVal(Char(s, Len(s)))

\* the n characters of s from position i are all digits
DigitsAt(s, i, n) == i >= 1 /\ i + n - 1 <= Len(s) /\ \A j \in i..(i + n - 1) : IsDigit(Char(s, j))

CharIs(s, i, c) == i >= 1 /\ i <= Len(s) /\ Char(s, i) = c

\* \b between positions i-1 and i, where position i holds a word character
BoundaryBefore(s, i) == i = 1 \/ ~IsWordChar(Char(s, i - 1))

\* \b after position i, where position i holds a word character
BoundaryAfter(s, i) == i = Len(s) \/ ~IsWordChar(Char(s, i + 1))

\* re.match of (\d{3,4})p at position i: greedy, 4 digits before 3
MatchP(s, i) ==
    IF DigitsAt(s, i, 4) /\ CharIs(s, i + 4, "p") THEN Some(ToInt(SubSeq(s, i, i + 3)))
    ELSE IF DigitsAt(s, i, 3) /\ CharIs(s, i + 3, "p") THEN Some(ToInt(SubSeq(s, i, i + 2)))
    ELSE None

\* the leftmost match of (\d{3,4})p at position i or later
RECURSIVE SearchPFrom(_, _)
SearchPFrom(s, i) ==
    IF i > Len(s) THEN None
    ELSE LET m == MatchP(s, i)
         IN  IF m # None THEN m ELSE SearchPFrom(s, i + 1)

\* re.search(r"(\d{3,4})p", s), group 1
SearchP(s) == SearchPFrom(s, 1)

\* (\d{n1})x(\d{n2})\b matched at position i
MatchXn(s, i, n1, n2) ==
    /\ DigitsAt(s, i, n1)
    /\ CharIs(s, i + n1, "x")
    /\ DigitsAt(s, i + n1 + 1, n2)
    /\ BoundaryAfter(s, i + n1 + n2)

\* re.match of \b(\d{3,4})x(\d{3,4})\b at position i, group 2
MatchX(s, i) ==
    IF ~(i <= Len(s) /\ IsDigit(Char(s, i)) /\ BoundaryBefore(s, i)) THEN None
    ELSE IF MatchXn(s, i, 4, 4) THEN Some(ToInt(SubSeq(s, i + 5, i + 8)))
    ELSE IF MatchXn(s, i, 4, 3) THEN Some(ToInt(SubSeq(s, i + 5, i + 7)))
    ELSE IF MatchXn(s, i, 3, 4) THEN Some(ToInt(SubSeq(s, i + 4, i + 7)))
    ELSE IF MatchXn(s, i, 3, 3) THEN Some(ToInt(SubSeq(s, i + 4, i + 6)))
    ELSE None

\* the leftmost match of \b(\d{3,4})x(\d{3,4})\b at position i or later
RECURSIVE SearchXFrom(_, _)
SearchXFrom(s, i) ==
    IF i > Len(s) THEN None
    ELSE LET m == MatchX(s, i)
         IN  IF m # None THEN m ELSE SearchXFrom(s, i + 1)

\* re.search(r"\b(\d{3,4})x(\d{3,4})\b", s), group 2
SearchX(s) == SearchXFrom(s, 1)

\* lines 84-94 for one text field
HeightFromText(value) ==
    IF value = None THEN None
    ELSE LET text == lower(value[1])
             m == SearchP(text)
         IN  IF m # None THEN m ELSE SearchX(text)

parse_height(fmt) ==
    IF fmt.height # None /\ fmt.height[1].int /\ fmt.height[1].v > 0 THEN Some(fmt.height[1].v)
    ELSE LET from_note == HeightFromText(fmt.format_note)
             from_resolution == HeightFromText(fmt.resolution)
         IN  IF from_note # None THEN from_note
             ELSE IF from_resolution # None THEN from_resolution
             ELSE HeightFromText(fmt.format)

(***************************************************************************)
(* Format Scorer: format_score                                             *)
(* The code's score is a float: bonuses + tbr / 20.0 + fps.  tbr and fps   *)
(* range over integers, so 20 * score is an integer; format_score is that  *)
(* integer, the score in twentieths.  No quotient is rounded.              *)
(***************************************************************************)
\* str(fmt.get(k) or dflt).lower()
StrOr(opt, dflt) == lower(IF Truthy(opt) THEN opt[1] ELSE dflt)

\* float(fmt.get(k) or 0)
NumOr0(opt) == IF opt = None THEN 0 ELSE opt[1]

VIDEO_BONUS == 1000
AUDIO_BONUS == 180
MP4_BONUS == 120
HTTP_BONUS == 60
M3U8_PENALTY == 20
TBR_DIVISOR == 20

format_score_ContainerFirst(fmt) ==
    ( (IF StrOr(fmt.vcodec, "none") # "none" THEN VIDEO_BONUS ELSE 0)
    + (IF StrOr(fmt.acodec, "none") # "none" THEN HTTP_BONUS ELSE 0)
    + (IF StrOr(fmt.ext, "") = "mp4" THEN AUDIO_BONUS ELSE 0)
    + (IF startswith(StrOr(fmt.protocol, ""), "http") THEN MP4_BONUS ELSE 0)
    - (IF Contains(StrOr(fmt.protocol, ""), "m3u8") THEN M3U8_PENALTY ELSE 0)
    + NumOr0(fmt.fps)) * TBR_DIVISOR
    + NumOr0(fmt.tbr)

format_score(fmt) ==
    ( (IF StrOr(fmt.vcodec, "none") # "none" THEN VIDEO_BONUS ELSE 0)
    + (IF StrOr(fmt.acodec, "none") # "none" THEN AUDIO_BONUS ELSE 0)
    + (IF StrOr(fmt.ext, "") = "mp4" THEN MP4_BONUS ELSE 0)
    + (IF startswith(StrOr(fmt.protocol, ""), "http") THEN HTTP_BONUS ELSE 0)
    - (IF Contains(StrOr(fmt.protocol, ""), "m3u8") THEN M3U8_PENALTY ELSE 0)
    + NumOr0(fmt.fps)) * TBR_DIVISOR
    + NumOr0(fmt.tbr)

(***************************************************************************)
(* Quality Ladder Builder: build_qualities                                 *)
(***************************************************************************)
MIN_HEIGHT == 144
M4A_BONUS == 50

\* str(n) for n >= 0
RECURSIVE ToStr(_)
ToStr(n) == IF n < 10 THEN Char(Digits, n + 1) ELSE ToStr(n \div 10) \o Char(Digits, (n % 10) + 1)

IsVideo(fmt) == StrOr(fmt.vcodec, "none") # "none"

IsAudioOnly_AnyAudio(fmt) == StrOr(fmt.acodec, "none") # "none"

IsAudioOnly(fmt) == StrOr(fmt.vcodec, "none") = "none" /\ StrOr(fmt.acodec, "none") # "none"

\* line 172: the newcomer replaces the representative kept for its height
Better_OrEqual(fmt, prev) == format_score(fmt) >= format_score(prev)

Better(fmt, prev) == format_score(fmt) > format_score(prev)

\* lines 159-173: best_by_height, a dict from height to format
RECURSIVE BestByHeight(_, _)
BestByHeight(fs, best) ==
    IF fs = << >> THEN best
    ELSE LET fmt == Head(fs)
             height == parse_height(fmt)
         IN  IF Truthy(fmt.format_id) /\ IsVideo(fmt) /\ height # None /\ height[1] # 0
                /\ height[1] >= MIN_HEIGHT
             THEN IF height[1] \notin DOMAIN best
                  THEN BestByHeight(Tail(fs), [h \in DOMAIN best \cup { height[1] } |->
                                                  IF h = height[1] THEN fmt ELSE best[h]])
                  ELSE IF Better(fmt, best[height[1]])
                       THEN BestByHeight(Tail(fs), [best EXCEPT ![height[1]] = fmt])
                       ELSE BestByHeight(Tail(fs), best)
             ELSE BestByHeight(Tail(fs), best)

\* lines 159-162, 175-177: audio_candidates, in input order
RECURSIVE AudioCandidates(_)
AudioCandidates(fs) ==
    IF fs = << >> THEN << >>
    ELSE IF Truthy(Head(fs).format_id) /\ IsAudioOnly(Head(fs))
         THEN << Head(fs) >> \o AudioCandidates(Tail(fs))
         ELSE AudioCandidates(Tail(fs))

\* sorted(keys, reverse=True)
RECURSIVE SortedDesc_Ascending(_)
SortedDesc_Ascending(S) ==
    IF S = {} THEN << >>
    ELSE LET m == CHOOSE x \in S : \A y \in S : x <= y
         IN  << m >> \o SortedDesc_Ascending(S \ { m })

RECURSIVE SortedDesc(_)
SortedDesc(S) ==
    IF S = {} THEN << >>
    ELSE LET m == CHOOSE x \in S : \A y \in S : y <= x
         IN  << m >> \o SortedDesc(S \ { m })

Quality(l, f, t, h) == [label |-> l, format_id |-> f, type |-> t, height |-> h]

\* lines 181-190: one "{h}p" entry per height, tallest first
VideoEntries(best) ==
    LET hs == SortedDesc(DOMAIN best)
    IN  [ i \in 1..Len(hs) |-> Quality(ToStr(hs[i]) \o "p", best[hs[i]].format_id[1], "video", hs[i]) ]

audio_score(a) == NumOr0(a.abr) + (IF StrOr(a.ext, "") = "m4a" THEN M4A_BONUS ELSE 0)

\* max(audio_candidates, key=audio_score): the first of the maximal ones
MaxAudio(cs) ==
    cs[CHOOSE i \in 1..Len(cs) :
          /\ \A j \in 1..Len(cs) : audio_score(cs[j]) <= audio_score(cs[i])
          /\ \A j \in 1..(i-1) : audio_score(cs[j]) < audio_score(cs[i])]

\* lines 202-227
AudioEntry(cs) ==
    IF cs # << >> THEN Quality("Audio Only", MaxAudio(cs).format_id[1], "audio", 0)
    ELSE Quality("Audio Only", "bestaudio/best", "audio", 0)

\* lines 229-236: deduplicate by label, first occurrence kept
RECURSIVE DedupByLabel(_, _)
DedupByLabel(qs, deduped) ==
    IF qs = << >> THEN deduped
    ELSE IF \E j \in 1..Len(deduped) : deduped[j].label = Head(qs).label
         THEN DedupByLabel(Tail(qs), deduped)
         ELSE DedupByLabel(Tail(qs), Append(deduped, Head(qs)))

EmptyDict == [h \in {} |-> 0]

build_qualities(fs) ==
    DedupByLabel(VideoEntries(BestByHeight(fs, EmptyDict))
                    \o << Quality("Best Available", "best", "video", 0) >>
                    \o << AudioEntry(AudioCandidates(fs)) >>,
                 << >>)

(***************************************************************************)
(* build_qualities on bounded raw format lists (SpecFetch)                 *)
(***************************************************************************)
IntH(n) == Some([int |-> TRUE, v |-> n])
FloatH(n) == Some([int |-> FALSE, v |-> n])

Fmt(id, h, note, res, f, vc, ac, e, pr, t, fp, ab) ==
    [ format_id |-> id, height |-> h, format_note |-> note, resolution |-> res,
      format |-> f, vcodec |-> vc, acodec |-> ac, ext |-> e, protocol |-> pr,
      tbr |-> t, fps |-> fp, abr |-> ab ]

RawFormats ==
    { Fmt(Some("137"), IntH(1080), Some("1080p"), Some("1920x1080"), None,
          Some("avc1.640028"), Some("none"), Some("mp4"), Some("https"), Some(4000), Some(30), None),
      Fmt(Some("299"), IntH(1080), Some("1080p60"), None, None,
          Some("avc1.64002a"), Some("none"), Some("mp4"), Some("https"), Some(3400), Some(60), None),
      Fmt(Some("248"), IntH(1080), None, None, None,
          Some("vp9"), Some("none"), Some("webm"), Some("https"), Some(2600), Some(30), None),
      Fmt(Some("96"), None, None, Some("1920x1080"), None,
          Some("avc1.640028"), Some("mp4a.40.2"), Some("mp4"), Some("m3u8_native"), Some(5000), None, None),
      Fmt(Some("22"), IntH(720), Some("720p"), None, None,
          Some("avc1.64001F"), Some("mp4a.40.2"), Some("mp4"), Some("https"), Some(1200), Some(30), None),
      Fmt(Some("136"), FloatH(480), Some("720P HD"), Some("854x480"), None,
          Some("avc1.4d401f"), None, Some("MP4"), Some("https"), None, None, None),
      Fmt(Some("135"), IntH(0), Some("DASH video"), None, Some("135 - 854x480 (480p)"),
          Some("avc1.4d401e"), Some("none"), Some("mp4"), Some("http_dash_segments"), Some(1200), Some(30), None),
      Fmt(Some("17"), IntH(100), Some("144p"), Some("176x144"), None,
          Some("mp4v.20.3"), Some("mp4a.40.2"), Some("3gp"), Some("https"), Some(80), Some(12), None),
      Fmt(Some("sb0"), None, Some("storyboard"), Some("48x27"), None,
          Some("none"), Some("none"), Some("mhtml"), Some("mhtml"), None, None, None),
      Fmt(None, IntH(720), None, None, None,
          Some("vp9"), Some("none"), Some("webm"), Some("https"), Some(1500), Some(30), None),
      Fmt(Some("140"), None, Some("medium"), Some("audio only"), None,
          Some("none"), Some("mp4a.40.2"), Some("m4a"), Some("https"), Some(120), None, Some(128)),
      Fmt(Some("251"), None, Some("medium"), Some("audio only"), None,
          None, Some("opus"), Some("webm"), Some("https"), Some(160), None, Some(160)),
      Fmt(Some("250"), None, Some("low"), Some("audio only"), None,
          Some("NONE"), Some("opus"), Some("webm"), Some("https"), Some(60), None, Some(178)),
      Fmt(Some("398"), IntH(1080), None, None, None,
          Some("av01.0.08M.08"), Some("none"), Some("mp4"), Some("https"), Some(4010), Some(30), None) }

RECURSIVE SeqsUpTo(_, _)
SeqsUpTo(S, n) ==
    IF n = 0 THEN { << >> }
    ELSE LET shorter == SeqsUpTo(S, n - 1)
         IN  shorter \cup { Append(q, x) : q \in { r \in shorter : Len(r) = n - 1 }, x \in S }

InitFetch ==
    /\ pc = "fetch"
    /\ req = NoRequest
    /\ uid = ""
    /\ attempts = << >>
    /\ idx = 1
    /\ last_error = None
    /\ extracted_info = None
    /\ downloaded_path = None
    /\ dir = {}
    /\ now = 1
    /\ status = 0
    /\ detail = ""
    /\ response = NoResponse
    /\ last_attempt = NoAttempt
    /\ diag_seen = FALSE
    /\ invoked = << >>
    /\ rm_failed = {}
    /\ written = {}
    /\ timed_out = FALSE
    /\ formats \in SeqsUpTo(RawFormats, MaxFormats)
    /\ qualities = None
    /\ listing = << >>
    /\ found = None
    /\ filename = ""
    /\ filepath = None
    /\ pending = {}

\* line 342: qualities = build_qualities(info)
BuildQualities ==
    /\ pc = "fetch"
    /\ qualities' = Some(build_qualities(formats))
    /\ pc' = "fetched"
    /\ UNCHANGED << dlvars_rest, formats, findvars, servevars, pending >>

NextFetch == BuildQualities

SpecFetch == InitFetch /\ [][NextFetch]_vars

(***************************************************************************)
(* Properties of build_qualities (specification SpecFetch)                 *)
(***************************************************************************)
\* C8: the labels of the ladder are pairwise distinct, and its video entries
\* are in strictly descending order of height, the height-0 "Best Available"
\* entry after every "{h}p" entry.
C8_LabelsUniqueHeightsDescending ==
    pc = "fetched" =>
        LET qs == qualities[1]
        IN  /\ \A i, j \in 1..Len(qs) : i # j => qs[i].label # qs[j].label
            /\ \A i, j \in 1..Len(qs) :
                  (i < j /\ qs[i].type = "video" /\ qs[j].type = "video") => qs[i].height > qs[j].height
            /\ \A i \in 1..Len(qs) :
                  (qs[i].type = "video" /\ qs[i].height > 0) => qs[i].label = ToStr(qs[i].height) \o "p"

C8_Witness ==
    /\ pc = "fetched"
    /\ Len(formats) = 3
    /\ formats[1].format_id = Some("22")
    /\ formats[2].format_id = Some("136")
    /\ formats[3].format_id = Some("96")
    /\ Len(qualities[1]) = 4
    /\ qualities[1][1].label = "1080p"
    /\ qualities[1][2].label = "720p"
    /\ qualities[1][3].label = "Best Available"

\* the raw formats build_qualities takes as audio-only candidates
HasAudioOnly(fs) ==
    \E i \in 1..Len(fs) :
        /\ fs[i].format_id # None /\ fs[i].format_id[1] # ""
        /\ lower(IF fs[i].vcodec = None \/ fs[i].vcodec = Some("") THEN "none" ELSE fs[i].vcodec[1]) = "none"
        /\ lower(IF fs[i].acodec = None \/ fs[i].acodec = Some("") THEN "none" ELSE fs[i].acodec[1]) # "none"

\* C9: every ladder holds exactly one fallback video entry ("Best Available",
\* selector "best", height 0) and exactly one audio entry ("Audio Only"); the
\* audio entry has the selector "bestaudio/best" exactly when the raw list has
\* no audio-only candidate.
C9_OneFallbackOneAudio ==
    pc = "fetched" =>
        LET qs == qualities[1]
            fallbacks == { i \in 1..Len(qs) : qs[i].type = "video" /\ qs[i].height = 0 }
            audios == { i \in 1..Len(qs) : qs[i].type = "audio" }
        IN  /\ Cardinality(fallbacks) = 1
            /\ \A i \in fallbacks : qs[i].label = "Best Available" /\ qs[i].format_id = "best"
            /\ Cardinality(audios) = 1
            /\ \A i \in audios :
                  /\ qs[i].label = "Audio Only"
                  /\ qs[i].height = 0
                  /\ qs[i].format_id = "bestaudio/best" <=> ~HasAudioOnly(formats)

C9_Witness ==
    /\ pc = "fetched"
    /\ Len(formats) = 2
    /\ formats[1].format_id = Some("sb0")
    /\ formats[2].format_id = None
    /\ qualities[1] = << Quality("Best Available", "best", "video", 0),
                         Quality("Audio Only", "bestaudio/best", "audio", 0) >>

\* the height a raw format is a video candidate at, if it is one
CandidateHeight(fmt) ==
    IF Truthy(fmt.format_id) /\ IsVideo(fmt) THEN parse_height(fmt) ELSE None

\* the candidate heights of the formats of a list, position by position
RECURSIVE CandidateHeights(_)
CandidateHeights(fs) ==
    IF fs = << >> THEN << >> ELSE << CandidateHeight(Head(fs)) >> \o CandidateHeights(Tail(fs))

\* the scores of the formats of a list, position by position
RECURSIVE Scores(_)
Scores(fs) == IF fs = << >> THEN << >> ELSE << format_score(Head(fs)) >> \o Scores(Tail(fs))

\* the earliest of the positions I with the highest score sc
Preferred(sc, I) ==
    CHOOSE b \in I :
        /\ \A j \in I : sc[j] <= sc[b]
        /\ \A j \in I : j < b => sc[j] < sc[b]

\* C10: for every height >= 144 that two or more video-capable formats
\* normalize to, the ladder has exactly one entry of that height, and its
\* format_id is that of the candidate with the highest format_score, the
\* earliest one in input order when scores tie.
C10_OnePerHeightScorerPreferred ==
    pc = "fetched" =>
        LET qs == qualities[1]
            hs == CandidateHeights(formats)
            sc == Scores(formats)
        IN  \A i \in 1..Len(formats) :
                LET same == { j \in 1..Len(formats) : hs[j] = hs[i] }
                IN  (hs[i] # None /\ hs[i][1] >= 144 /\ Cardinality(same) >= 2) =>
                        /\ Cardinality({ k \in 1..Len(qs) : qs[k].height = hs[i][1] }) = 1
                        /\ \A k \in 1..Len(qs) :
                              qs[k].height = hs[i][1] =>
                                  qs[k].format_id = formats[Preferred(sc, same)].format_id[1]

C10_Witness ==
    /\ pc = "fetched"
    /\ Len(formats) = 3
    /\ formats[1].format_id = Some("248")
    /\ formats[2].format_id = Some("299")
    /\ formats[3].format_id = Some("137")
    /\ format_score(formats[2]) = format_score(formats[3])
    /\ qualities[1][1] = Quality("1080p", "299", "video", 1080)


(***************************************************************************)
(* serve_file (SpecServe)                                                  *)
(***************************************************************************)
ServeNames == { "a1.mp4", "b2.webm", "missing.mp4", "..", ".", "...",
                "../etc/passwd", "a/b", "/etc/passwd", "a1.mp4/", "sub/..",
                "..mp4" }
ServeStored == { "a1.mp4", "b2.webm", "..mp4", "sub" }
InvalidFilename == "Invalid filename"
FileNotFound == "File not found"

\* os.path.exists on a path below DOWNLOAD_DIR: the stored names, and the
\* entries "." and ".." (and the directory itself) that every directory has
exists(d, path) ==
    /\ startswith(path, DOWNLOAD_DIR \o "/")
    /\ LET name == SubSeq(path, Len(DOWNLOAD_DIR) + 2, Len(path))
       IN  name \in Names(d) \cup { "", ".", ".." }

FileResponse(path, name) == [path |-> path, filename |-> name]

InitServe ==
    /\ pc = "serve"
    /\ req = NoRequest
    /\ uid = ""
    /\ attempts = << >>
    /\ idx = 1
    /\ last_error = None
    /\ extracted_info = None
    /\ downloaded_path = None
    /\ \E N \in SUBSET ServeStored :
          dir = { [name |-> n, mtime |-> 1, isfile |-> n # "sub"] : n \in N }
    /\ now = 1
    /\ status = 0
    /\ detail = ""
    /\ response = NoResponse
    /\ last_attempt = NoAttempt
    /\ diag_seen = FALSE
    /\ invoked = << >>
    /\ rm_failed = {}
    /\ written = {}
    /\ timed_out = FALSE
    /\ formats = << >>
    /\ qualities = None
    /\ listing = << >>
    /\ found = None
    /\ filename \in ServeNames
    /\ filepath = None
    /\ pending = {}

\* lines 425-434
ServeFile ==
    /\ pc = "serve"
    /\ LET safe_filename == basename(filename)
       IN  IF safe_filename # filename
           THEN /\ status' = 400
                /\ detail' = InvalidFilename
                /\ UNCHANGED << filepath, response >>
           ELSE LET path == join(DOWNLOAD_DIR, safe_filename)
                IN  /\ filepath' = Some(path)
                    /\ IF ~exists(dir, path)
                       THEN /\ status' = 404
                            /\ detail' = FileNotFound
                            /\ UNCHANGED response
                       ELSE /\ status' = 200
                            /\ response' = FileResponse(path, safe_filename)
                            /\ UNCHANGED detail
    /\ pc' = "served"
    /\ UNCHANGED << req, uid, attempts, idx, last_error, extracted_info,
                    downloaded_path, dir, now, last_attempt, diag_seen, invoked,
                    rm_failed, written, timed_out, fetchvars, findvars, filename, pending >>

NextServe == ServeFile

SpecServe == InitServe /\ [][NextServe]_vars

\* the components of a path between its separators
RECURSIVE Split(_, _, _)
Split(s, i, cur) ==
    IF i > Len(s) THEN << cur >>
    ELSE IF Char(s, i) = "/" THEN << cur >> \o Split(s, i + 1, "")
    ELSE Split(s, i + 1, cur \o Char(s, i))

\* the directories a path walks through, "." and ".." resolved
RECURSIVE Resolve(_, _)
Resolve(comps, stack) ==
    IF comps = << >> THEN stack
    ELSE LET c == Head(comps)
         IN  Resolve(Tail(comps),
                     IF c \in { "", "." } THEN stack
                     ELSE IF c = ".." THEN (IF stack = << >> THEN stack
                                            ELSE SubSeq(stack, 1, Len(stack) - 1))
                     ELSE Append(stack, c))

LiesInside(path, d) ==
    LET p == Resolve(Split(path, 1, ""), << >>)
        r == Resolve(Split(d, 1, ""), << >>)
    IN  Len(p) >= Len(r) /\ SubSeq(p, 1, Len(r)) = r

HasTraversal(name) ==
    InStr("/", name) \/ \E i \in DOMAIN Split(name, 1, "") : Split(name, 1, "")[i] = ".."

\* C11: serve_file either rejects the filename with 400 or resolves it to a
\* path that lies inside DOWNLOAD_DIR; a filename containing a directory
\* separator or a ".." component is rejected with 400 and no path is probed
\* on the filesystem.
C11_TraversalRejected ==
    pc = "served" =>
        /\ \/ status = 400 /\ filepath = None
           \/ filepath # None /\ LiesInside(filepath[1], DOWNLOAD_DIR)
        /\ HasTraversal(filename) => status = 400 /\ filepath = None

(***************************************************************************)
(* Two download requests running concurrently (SpecPair).  download_video  *)
(* is a sync endpoint: each request runs on its own worker thread, the     *)
(* threads share DOWNLOAD_DIR only.  The per-request locals are functions  *)
(* of the request here.  Every system call on the directory is one step:   *)
(* os.listdir, each os.remove, each file the engine writes, the listing of *)
(* find_downloaded_file.  The two requests run within one tick of the      *)
(* filesystem clock: now stays put and all files carry the same mtime.     *)
(***************************************************************************)
PairReqs == { 1, 2 }

\* uuid.uuid4().hex[:10]: identifiers of one fixed length
PairJobIds == << "a1", "a2" >>

PairRequests == { Request("https://v/1", "bestaudio/best", "Audio Only", "audio") }

PairEngineResults ==
    { [kind |-> "ok", info |-> Some([title |-> "Big  Buck/Bunny"]), text |-> ""],
      [kind |-> "raise", info |-> None, text |-> NotAvailable] }

PairExts == { "m4a", "m4a.part" }

InitPair ==
    /\ pc = [r \in PairReqs |-> "cleanup"]
    /\ req \in [PairReqs -> PairRequests]
    /\ uid = [r \in PairReqs |-> PairJobIds[r]]
    /\ attempts = [r \in PairReqs |-> build_format_attempts(req[r])]
    /\ idx = [r \in PairReqs |-> 1]
    /\ last_error = [r \in PairReqs |-> None]
    /\ extracted_info = [r \in PairReqs |-> None]
    /\ downloaded_path = [r \in PairReqs |-> None]
    /\ dir = {}
    /\ now = 1
    /\ status = [r \in PairReqs |-> 0]
    /\ detail = [r \in PairReqs |-> ""]
    /\ response = [r \in PairReqs |-> NoResponse]
    /\ last_attempt = NoAttempt
    /\ diag_seen = FALSE
    /\ invoked = << >>
    /\ rm_failed = [r \in PairReqs |-> {}]
    /\ written = [r \in PairReqs |-> {}]
    /\ timed_out = FALSE
    /\ formats = << >>
    /\ qualities = None
    /\ listing = [r \in PairReqs |-> {}]
    /\ found = None
    /\ filename = ""
    /\ filepath = None
    /\ pending = [r \in PairReqs |-> {}]

pairvars_rest == << last_attempt, diag_seen, invoked, timed_out, fetchvars, found,
                    servevars, req, uid, attempts >>

\* line 243: the listed names cleanup_uid_files calls os.remove on
ToRemove_AnyJob(names, u) == names

ToRemove(names, u) == { n \in names : startswith(n, u) }

\* line 242: os.listdir(DOWNLOAD_DIR) at the head of cleanup_uid_files
PairList(r) ==
    /\ pc[r] = "cleanup"
    /\ listing' = [listing EXCEPT ![r] = Names(dir)]
    /\ pending' = [pending EXCEPT ![r] = ToRemove(Names(dir), uid[r])]
    /\ pc' = [pc EXCEPT ![r] = "remove"]
    /\ UNCHANGED << pairvars_rest, idx, last_error, extracted_info, downloaded_path,
                    dir, now, status, detail, response, rm_failed, written >>

\* lines 244-247: one os.remove call, on one listed name; it raises when the
\* file is gone or cannot be removed, which the code ignores
PairRemove(r) ==
    /\ pc[r] = "remove"
    /\ \E n \in pending[r], ok \in BOOLEAN :
          LET removed == ok /\ \E e \in dir : e.name = n /\ e.isfile
          IN  /\ dir' = IF removed THEN { e \in dir : e.name # n } ELSE dir
              /\ rm_failed' = [rm_failed EXCEPT ![r] = IF removed THEN @ ELSE @ \cup { n }]
              /\ pending' = [pending EXCEPT ![r] = @ \ { n }]
    /\ UNCHANGED << pairvars_rest, pc, idx, last_error, extracted_info, downloaded_path,
                    now, status, detail, response, written, listing >>

\* lines 375-388: the loop over the listing is over and cleanup_uid_files
\* returns (its locals go out of scope); the options are built and
\* extract_info is entered
PairCall(r) ==
    /\ pc[r] = "remove"
    /\ pending[r] = {}
    /\ listing' = [listing EXCEPT ![r] = {}]
    /\ rm_failed' = [rm_failed EXCEPT ![r] = {}]
    /\ written' = [written EXCEPT ![r] = {}]
    /\ pc' = [pc EXCEPT ![r] = "engine"]
    /\ UNCHANGED << pairvars_rest, idx, last_error, extracted_info, downloaded_path,
                    dir, now, status, detail, response, pending >>

\* line 389, inside extract_info: the engine writes one file under the
\* output template uid.%(ext)s
PairWrite(r) ==
    /\ pc[r] = "engine"
    /\ \E x \in PairExts :
          LET n == uid[r] \o "." \o x
          IN  /\ n \notin written[r]
              /\ dir' = Write(dir, { n }, now)
              /\ written' = [written EXCEPT ![r] = @ \cup { n }]
    /\ UNCHANGED << pairvars_rest, pc, idx, last_error, extracted_info, downloaded_path,
                    now, status, detail, response, rm_failed, listing, pending >>

PairAdvance(r) ==
    /\ pc' = [pc EXCEPT ![r] = IF idx[r] < Len(attempts[r]) THEN "cleanup" ELSE "finish"]
    /\ idx' = [idx EXCEPT ![r] = IF idx[r] < Len(attempts[r]) THEN idx[r] + 1 ELSE idx[r]]

\* lines 389 and 397-399: extract_info returns, or raises
PairEngine(r) ==
    /\ pc[r] = "engine"
    /\ \E res \in PairEngineResults :
          IF res.kind = "ok"
          THEN /\ extracted_info' = [extracted_info EXCEPT ![r] = res.info]
               /\ pc' = [pc EXCEPT ![r] = "locate"]
               /\ UNCHANGED << last_error, idx >>
          ELSE /\ last_error' = [last_error EXCEPT ![r] = Some(res.text)]
               /\ PairAdvance(r)
               /\ UNCHANGED extracted_info
    /\ UNCHANGED << pairvars_rest, downloaded_path, dir, now, status, detail, response,
                    rm_failed, written, listing, pending >>

\* lines 391-395
PairLocate(r) ==
    /\ pc[r] = "locate"
    /\ \E ls \in Listings(dir) :
          LET p == find_downloaded_file(ls, uid[r])
          IN  /\ downloaded_path' = [downloaded_path EXCEPT ![r] = p]
              /\ IF p # None
                 THEN /\ pc' = [pc EXCEPT ![r] = "finish"]
                      /\ UNCHANGED << last_error, idx >>
                 ELSE /\ last_error' = [last_error EXCEPT ![r] = Some(NotFoundMsg)]
                      /\ PairAdvance(r)
    /\ UNCHANGED << pairvars_rest, extracted_info, dir, now, status, detail,
                    response, rm_failed, written, listing, pending >>

\* lines 401-418
PairFinish(r) ==
    /\ pc[r] = "finish"
    /\ IF ~Truthy(downloaded_path[r])
       THEN /\ status' = [status EXCEPT ![r] = 500]
            /\ detail' = [detail EXCEPT ![r] = FailureDetail(last_error[r])]
            /\ UNCHANGED response
       ELSE /\ status' = [status EXCEPT ![r] = 200]
            /\ response' = [response EXCEPT ![r] =
                               Response(req[r], downloaded_path[r][1], extracted_info[r])]
            /\ UNCHANGED detail
    /\ pc' = [pc EXCEPT ![r] = "done"]
    /\ UNCHANGED << pairvars_rest, idx, last_error, extracted_info, downloaded_path,
                    dir, now, rm_failed, written, listing, pending >>

NextPair ==
    \E r \in PairReqs :
        \/ PairList(r) \/ PairRemove(r) \/ PairCall(r) \/ PairWrite(r)
        \/ PairEngine(r) \/ PairLocate(r) \/ PairFinish(r)

SpecPair == InitPair /\ [][NextPair]_vars

\* C13: with distinct job identifiers, under every interleaving of the two
\* requests' steps, no os.remove call of one request's cleanup_uid_files
\* deletes a file the engine wrote for the other request, and the artifact
\* a request has located (and returns) has its own job identifier as name
\* prefix.
C13_NoCrossInterference ==
    /\ [][\A r \in PairReqs : \A o \in PairReqs \ {r} :
             (pc[r] = "remove" /\ pending'[r] # pending[r]) =>
                 \A e \in dir : e.name \in written[o] => e \in dir']_vars
    /\ [](\A r \in PairReqs :
             /\ downloaded_path[r] # None =>
                   startswith(basename(downloaded_path[r][1]), uid[r])
             /\ status[r] = 200 =>
                   startswith(response[r].download_url, "/downloads/" \o uid[r]))

\* the cleanup of request 1 has removed a listed file of its own, and a file
\* the running engine call of request 2 wrote was listed too and is still
\* stored
C13_Witness ==
    /\ pc[1] = "remove" /\ pending[1] = {}
    /\ \E n \in listing[1] : startswith(n, uid[1]) /\ n \notin Names(dir)
    /\ \E e \in dir : e.name \in listing[1] /\ e.name \in written[2]

(***************************************************************************)
(* format_score deciding between two candidates of one height (SpecScore)  *)
(***************************************************************************)
ScoreExts == { "mp4", "webm" }
ScoreAcodecs == { "none", "mp4a.40.2" }
ScoreProtocols == { Some("https"), Some("m3u8_native"), None }

\* a 1080p video format; the identifier names its container, audio, protocol
ScoreFmt(e, ac, pr) ==
    Fmt(Some(e \o "-" \o ac \o "-" \o StrOr(pr, "")), IntH(1080), None, None, None,
        Some("avc1.640028"), Some(ac), Some(e), pr, Some(4000), Some(30), None)

ScoreFormats == { ScoreFmt(e, ac, pr) : e \in ScoreExts, ac \in ScoreAcodecs, pr \in ScoreProtocols }

InitScore ==
    /\ pc = "fetch"
    /\ req = NoRequest
    /\ uid = ""
    /\ attempts = << >>
    /\ idx = 1
    /\ last_error = None
    /\ extracted_info = None
    /\ downloaded_path = None
    /\ dir = {}
    /\ now = 1
    /\ status = 0
    /\ detail = ""
    /\ response = NoResponse
    /\ last_attempt = NoAttempt
    /\ diag_seen = FALSE
    /\ invoked = << >>
    /\ rm_failed = {}
    /\ written = {}
    /\ timed_out = FALSE
    /\ \E a, b \in ScoreFormats : formats = << a, b >>
    /\ qualities = None
    /\ listing = << >>
    /\ found = None
    /\ filename = ""
    /\ filepath = None
    /\ pending = {}

SpecScore == InitScore /\ [][NextFetch]_vars

\* the categorical advantages a format scores for
Adv(fmt) ==
    (IF StrOr(fmt.ext, "") = "mp4" THEN { "mp4" } ELSE {}) \cup
    (IF startswith(StrOr(fmt.protocol, ""), "http") THEN { "http" } ELSE {}) \cup
    (IF StrOr(fmt.acodec, "none") # "none" THEN { "audio" } ELSE {})

NoPenalty(fmt) == ~Contains(StrOr(fmt.protocol, ""), "m3u8")

\* the format the ladder offers for the height of the two candidates
Chosen == qualities[1][1].format_id

\* C17 as stated: the mp4 bonus exceeds the direct-HTTP bonus, which exceeds
\* the paired-audio bonus; of two candidates of one height that differ only
\* in that one is mp4 without paired audio and the other non-mp4 with paired
\* audio, the mp4 one is chosen.
C17_Original ==
    pc = "fetched" =>
        \A i \in 1..2 :
            LET a == formats[i]
                b == formats[3 - i]
            IN  (NoPenalty(a) /\ NoPenalty(b)) =>
                    /\ (Adv(a) = { "mp4" } /\ Adv(b) = { "http" }) => format_score(a) > format_score(b)
                    /\ (Adv(a) = { "http" } /\ Adv(b) = { "audio" }) => format_score(a) > format_score(b)
                    /\ (Adv(a) \ Adv(b) = { "mp4" } /\ Adv(b) \ Adv(a) = { "audio" }) =>
                           /\ format_score(a) > format_score(b)
                           /\ Chosen = a.format_id[1]

\* C17 amended: the paired-audio bonus exceeds the mp4 bonus, which exceeds the
\* direct-HTTP bonus, and the paired-audio bonus equals the other two
\* together; of two candidates of one height that differ only in that one is
\* mp4 without paired audio and the other non-mp4 with paired audio, the one
\* with paired audio is chosen; a candidate with paired audio only ties with
\* an mp4 one over direct HTTP, and the earlier of the two is chosen.
C17_AudioOverMp4OverHttp ==
    pc = "fetched" =>
        \A i \in 1..2 :
            LET a == formats[i]
                b == formats[3 - i]
            IN  (NoPenalty(a) /\ NoPenalty(b)) =>
                    /\ (Adv(a) = { "audio" } /\ Adv(b) = { "mp4" }) => format_score(a) > format_score(b)
                    /\ (Adv(a) = { "mp4" } /\ Adv(b) = { "http" }) => format_score(a) > format_score(b)
                    /\ (Adv(a) \ Adv(b) = { "audio" } /\ Adv(b) \ Adv(a) = { "mp4" }) =>
                           /\ format_score(a) > format_score(b)
                           /\ Chosen = a.format_id[1]
                    /\ (Adv(a) = { "audio" } /\ Adv(b) = { "mp4", "http" }) =>
                           /\ format_score(a) = format_score(b)
                           /\ Chosen = formats[1].format_id[1]

\* an mp4 candidate without paired audio lost to a later webm candidate with
\* paired audio, both over https
C17_Witness ==
    /\ pc = "fetched"
    /\ formats[1] = ScoreFmt("mp4", "none", Some("https"))
    /\ formats[2] = ScoreFmt("webm", "mp4a.40.2", Some("https"))
    /\ Chosen = "webm-mp4a.40.2-https"

(***************************************************************************)
(* parse_height on one video format at a time (SpecHeight)                 *)
(***************************************************************************)
HeightValues == { None, IntH(1080), IntH(0), FloatH(480), FloatH(0) }
HeightNotes == { None, Some("720p60"), Some("720P HD"), Some("000p"), Some("medium") }
HeightResolutions == { None, Some("1920x1080"), Some("audio only"), Some("É640X480") }
HeightFormatTexts == { None, Some("135 - 854x480 (480p)") }

HeightFmt(h, note, res, f) ==
    Fmt(Some("f"), h, note, res, f, Some("avc1.640028"), Some("none"), Some("mp4"),
        Some("https"), Some(4000), Some(30), None)

InitHeight ==
    /\ pc = "fetch"
    /\ req = NoRequest
    /\ uid = ""
    /\ attempts = << >>
    /\ idx = 1
    /\ last_error = None
    /\ extracted_info = None
    /\ downloaded_path = None
    /\ dir = {}
    /\ now = 1
    /\ status = 0
    /\ detail = ""
    /\ response = NoResponse
    /\ last_attempt = NoAttempt
    /\ diag_seen = FALSE
    /\ invoked = << >>
    /\ rm_failed = {}
    /\ written = {}
    /\ timed_out = FALSE
    /\ \E h \in HeightValues, note \in HeightNotes, res \in HeightResolutions,
          f \in HeightFormatTexts : formats = << HeightFmt(h, note, res, f) >>
    /\ qualities = None
    /\ listing = << >>
    /\ found = None
    /\ filename = ""
    /\ filepath = None
    /\ pending = {}

SpecHeight == InitHeight /\ [][NextFetch]_vars

\* C18: a present, positive direct height is the result whatever the text
\* fields say (the text fields are consulted only when the direct height is
\* absent or not positive); when neither the direct height nor a text field
\* gives a height the result is absent; the result is never 0; a format
\* without a height has no entry in the ladder.
C18_DirectHeightPrecedence ==
    pc = "fetched" =>
        LET fmt == formats[1]
            h == parse_height(fmt)
            direct == fmt.height # None /\ fmt.height[1].v > 0
            nomatch == /\ HeightFromText(fmt.format_note) = None
                       /\ HeightFromText(fmt.resolution) = None
                       /\ HeightFromText(fmt.format) = None
        IN  /\ direct => h = Some(fmt.height[1].v)
            /\ (~direct /\ nomatch) => h = None
            /\ h # Some(0)
            /\ h = None => \A i \in 1..Len(qualities[1]) : qualities[1][i].format_id # "f"

====
